---- MODULE Spec2Model ----
(***************************************************************************)
(* Model of the Watch Collection API (src/main.py).                        *)
(*                                                                         *)
(* Strings are sequences of one-character strings, so that lower(),        *)
(* strip(), startswith(), the two re.sub calls and str.replace are         *)
(* computed character by character as Python computes them.                *)
(*                                                                         *)
(* The parsed document is the part of the BeautifulSoup tree that          *)
(* extract_watch_data reads: whether the carousel container is found, and  *)
(* for each 'inline-block' item (in document order) whether it holds an    *)
(* <img>, and the alt and src attributes (each present or absent) of the   *)
(* first <img> in it, the one item.find('img') returns.                    *)
(***************************************************************************)
EXTENDS Integers, Sequences, FiniteSets, TLC

VARIABLES
    html_content,   \* the parsed document handed to extract_watch_data
    watch_links,    \* the link list handed to extract_watch_data
    pc,             \* what ran last
    watches,        \* value returned by the last extract_watch_data call
    raised,         \* whether that call raised to its caller
    response,       \* outcome of the last request handler
    disk,           \* files under data/: path -> content
    data_dir,       \* whether data/ exists (os.makedirs)
    io_failures,    \* file writes the environment has made fail so far
    name_in,        \* argument of the string utilities
    slug_out,       \* generate_slug(name_in)
    slug_again,     \* generate_slug(slug_out)
    filename_out    \* generate_safe_filename(name_in, "watch")

vars == <<html_content, watch_links, pc, watches, raised, response, disk,
          data_dir, io_failures, name_in, slug_out, slug_again, filename_out>>

(***************************************************************************)
(* Bounds of the model.                                                    *)
(***************************************************************************)
MaxLen == 4
MaxItems == 3
MaxApiItems == 2
MaxLinks == 3
MaxWriteFailures == 1

(***************************************************************************)
(* Characters and Python's str methods.                                    *)
(***************************************************************************)
UpperCase == <<"A","B","C","D","E","F","G","H","I","J","K","L","M","N","O","P","Q","R","S","T","U","V","W","X","Y","Z">>
LowerCase == <<"a","b","c","d","e","f","g","h","i","j","k","l","m","n","o","p","q","r","s","t","u","v","w","x","y","z">>
Digits == {"0", "1", "2", "3", "4", "5", "6", "7", "8", "9"}
Whitespace == {" ", "\t", "\n", "\r"}

UpperSet == {UpperCase[k] : k \in 1..26}
LetterSet == UpperSet \cup {LowerCase[k] : k \in 1..26}
LowerOf == [c \in UpperSet |-> LowerCase[CHOOSE k \in 1..26 : UpperCase[k] = c]]
IsUpper(c) == c \in UpperSet
IsLetter(c) == c \in LetterSet
\* \w of Python's re on str: letters, digits and the underscore.
IsWordChar(c) == IsLetter(c) \/ c \in Digits \/ c = "_"
\* \s of Python's re, and the characters str.strip() removes.
IsSpace(c) == c \in Whitespace

LowerChar(c) == IF IsUpper(c) THEN LowerOf[c] ELSE c
\* str.lower()
Lower(s) == [k \in 1..Len(s) |-> LowerChar(s[k])]

RECURSIVE LStripChars(_, _)
LStripChars(s, cs) == IF s # <<>> /\ Head(s) \in cs THEN LStripChars(Tail(s), cs) ELSE s
RECURSIVE RStripChars(_, _)
RStripChars(s, cs) ==
    IF s # <<>> /\ s[Len(s)] \in cs THEN RStripChars(SubSeq(s, 1, Len(s) - 1), cs) ELSE s
\* str.strip(chars)
StripChars(s, cs) == RStripChars(LStripChars(s, cs), cs)
\* str.strip()
Strip(s) == StripChars(s, Whitespace)
\* str.startswith(prefix)
StartsWith(s, prefix) == Len(s) >= Len(prefix) /\ SubSeq(s, 1, Len(prefix)) = prefix
\* str.replace(' ', '_')
ReplaceSpace(s) == [k \in 1..Len(s) |-> IF s[k] = " " THEN "_" ELSE s[k]]
\* re.sub(r'[^\w\s-]', '', s)
RemoveNonWord(s) == SelectSeq(s, LAMBDA c : IsWordChar(c) \/ IsSpace(c) \/ c = "-")
\* re.sub(r'[\s-]+', '-', s): every maximal run of whitespace and hyphens
\* becomes one hyphen.
IsSep(c) == IsSpace(c) \/ c = "-"
RECURSIVE CollapseRuns(_)
CollapseRuns(s) ==
    IF s = <<>> THEN <<>>
    ELSE IF IsSep(Head(s))
         THEN <<"-">> \o CollapseRuns(LStripChars(s, Whitespace \cup {"-"}))
         ELSE <<Head(s)>> \o CollapseRuns(Tail(s))

(***************************************************************************)
(* Storage utility functions.                                              *)
(***************************************************************************)
\* Variant without the final strip('-') of line 49.
generate_slug_nostrip(name) ==
    IF name = <<>> THEN <<>>
    ELSE CollapseRuns(Strip(RemoveNonWord(Lower(name))))
generate_slug(name) ==
    IF name = <<>> THEN <<>>
    ELSE StripChars(CollapseRuns(Strip(RemoveNonWord(Lower(name)))), {"-"})

\* The path generate_safe_filename returns; its os.makedirs call is the
\* data_dir' = TRUE of the actions that use it.
generate_safe_filename(name, category) ==
    <<"d","a","t","a","/">> \o Lower(ReplaceSpace(RemoveNonWord(name))) \o <<"_">> \o category
        \o <<".","j","s","o","n">>

Watch == <<"w","a","t","c","h">>

(***************************************************************************)
(* urllib.parse.urljoin against the fixed base origin.  Modelled for       *)
(* references without '.' or '..' path segments.                           *)
(***************************************************************************)
BaseOrigin == <<"h","t","t","p","s",":","/","/","w","w","w",".","s","h","o","p","a","r",".","a","i">>
Http == <<"h","t","t","p">>
Https == <<"h","t","t","p","s">>
UnknownWatch == <<"U","n","k","n","o","w","n"," ","W","a","t","c","h">>

\* urlsplit's scheme characters
IsSchemeChar(c) == IsLetter(c) \/ c \in Digits \/ c \in {"+", "-", "."}
ColonAt(url) ==
    IF \E k \in 1..Len(url) : url[k] = ":"
    THEN CHOOSE k \in 1..Len(url) : url[k] = ":" /\ \A j \in 1..(k - 1) : url[j] # ":"
    ELSE 0
\* urlsplit finds a scheme: a letter, then scheme characters, then ':'
HasScheme(url) ==
    /\ ColonAt(url) > 1
    /\ IsLetter(url[1])
    /\ \A j \in 1..(ColonAt(url) - 1) : IsSchemeChar(url[j])
SchemeOf(url) == IF HasScheme(url) THEN Lower(SubSeq(url, 1, ColonAt(url) - 1)) ELSE <<>>
AfterScheme(url) == IF HasScheme(url) THEN SubSeq(url, ColonAt(url) + 1, Len(url)) ELSE url
RECURSIVE TakeNetloc(_)
TakeNetloc(s) ==
    IF s = <<>> \/ Head(s) \in {"/", "?", "#"} THEN <<>>
    ELSE <<Head(s)>> \o TakeNetloc(Tail(s))
HasNetloc(url) == StartsWith(AfterScheme(url), <<"/", "/">>)
Netloc(url) ==
    IF HasNetloc(url)
    THEN TakeNetloc(SubSeq(AfterScheme(url), 3, Len(AfterScheme(url))))
    ELSE <<>>
Contains(s, c) == \E k \in 1..Len(s) : s[k] = c
\* urlsplit raises ValueError("Invalid IPv6 URL") on an unbalanced bracket
UrlJoinRaises(url) ==
    /\ HasNetloc(url)
    /\ Contains(Netloc(url), "[") # Contains(Netloc(url), "]")
\* urljoin('https://www.shopar.ai', url) for a non-empty url that does not raise
UrlJoin(url) ==
    LET rest == AfterScheme(url)
        path == IF HasNetloc(url) THEN SubSeq(rest, 3, Len(rest)) ELSE rest
    IN  IF HasScheme(url) /\ SchemeOf(url) # Https THEN url
        ELSE IF Netloc(url) # <<>> THEN Https \o <<":">> \o rest
        ELSE IF path = <<>> THEN BaseOrigin
        ELSE IF Head(path) = "/" THEN BaseOrigin \o path
        ELSE BaseOrigin \o <<"/">> \o path

(***************************************************************************)
(* extract_watch_data                                                      *)
(***************************************************************************)
\* img_tag.get('alt', 'Unknown Watch').strip()
LabelOf(item) == Strip(IF item.has_alt THEN item.alt ELSE UnknownWatch)
\* img_tag.get('src', '').strip()
SourceOf(item) == Strip(IF item.has_src THEN item.src ELSE <<>>)
\* the test of line 131
NeedsJoin(img_url) == img_url # <<>> /\ ~StartsWith(img_url, Http)
\* img_url after lines 130-132, when urljoin does not raise
ResolvedUrl(item) ==
    IF NeedsJoin(SourceOf(item)) THEN UrlJoin(SourceOf(item)) ELSE SourceOf(item)
\* i < len(links), with i counted from 1
\* (InRangeShort: the variant i < len(links) - 1)
InRangeShort(i, links) == i < Len(links)
InRange(i, links) == i <= Len(links)

\* The for loop of lines 126-145 from item i on, watches being the list
\* built so far.  exc: an exception left the loop; then watches is the
\* list as it stood when the exception was raised.
\* ExtractLoopShifted is the variant that takes the link at the product's
\* position in the output, links[len(watches)], instead of links[i].
RECURSIVE ExtractLoopShifted(_, _, _, _)
ExtractLoopShifted(items, links, i, acc) ==
    IF i > Len(items) THEN [exc |-> FALSE, watches |-> acc]
    ELSE LET item == items[i] IN
         IF item.img /\ InRange(i, links)
         THEN IF NeedsJoin(SourceOf(item)) /\ UrlJoinRaises(SourceOf(item))
              THEN [exc |-> TRUE, watches |-> acc]
              ELSE IF ResolvedUrl(item) = <<>>
                   THEN ExtractLoopShifted(items, links, i + 1, acc)
                   ELSE ExtractLoopShifted(items, links, i + 1,
                            Append(acc, [name |-> LabelOf(item),
                                         image_url |-> ResolvedUrl(item),
                                         link |-> Strip(links[Len(acc) + 1]),
                                         slug |-> generate_slug(LabelOf(item))]))
         ELSE ExtractLoopShifted(items, links, i + 1, acc)
RECURSIVE ExtractLoop(_, _, _, _)
ExtractLoop(items, links, i, acc) ==
    IF i > Len(items) THEN [exc |-> FALSE, watches |-> acc]
    ELSE LET item == items[i] IN
         IF item.img /\ InRange(i, links)
         THEN IF NeedsJoin(SourceOf(item)) /\ UrlJoinRaises(SourceOf(item))
              THEN [exc |-> TRUE, watches |-> acc]
              ELSE IF ResolvedUrl(item) = <<>>
                   THEN ExtractLoop(items, links, i + 1, acc)
                   ELSE ExtractLoop(items, links, i + 1,
                            Append(acc, [name |-> LabelOf(item),
                                         image_url |-> ResolvedUrl(item),
                                         link |-> Strip(links[i]),
                                         slug |-> generate_slug(LabelOf(item))]))
         ELSE ExtractLoop(items, links, i + 1, acc)

\* The try body: [exc, watches].  A missing container returns [] (line 118).
ExtractBody(html, links) ==
    IF ~html.container THEN [exc |-> FALSE, watches |-> <<>>]
    ELSE ExtractLoop(html.items, links, 1, <<>>)

\* The whole function: [raised, value].  The except clause of lines 149-151
\* returns [] whatever had been appended.
\* (extract_watch_data_partial: the variant whose except clause returns the
\* list built so far.)
extract_watch_data_partial(html, links) ==
    [raised |-> FALSE, value |-> ExtractBody(html, links).watches]
extract_watch_data(html, links) ==
    LET body == ExtractBody(html, links)
    IN  IF body.exc
        THEN [raised |-> FALSE, value |-> <<>>]
        ELSE [raised |-> FALSE, value |-> body.watches]

(***************************************************************************)
(* save_data.  How the write ends is the environment's choice:             *)
(*   "ok"          the file holds the serialized data;                     *)
(*   "open_fails"  open() raises, the path is left as it was;              *)
(*   "dump_fails"  open(filename, 'w') has truncated or created the file   *)
(*                 and json.dump raises, leaving partial content.          *)
(* Either failure is logged and re-raised (lines 65-67).                   *)
(***************************************************************************)
EmptyDisk == [p \in {} |-> <<>>]
Put(d, filename, content) ==
    [p \in (DOMAIN d) \cup {filename} |-> IF p = filename THEN content ELSE d[p]]
ProductFile(p) == [kind |-> "product", products |-> <<p>>]
CollectionFile(ws) == [kind |-> "collection", products |-> ws]
PartialFile == [kind |-> "partial", products |-> <<>>]

save_data(d, content, filename, how) ==
    IF how = "ok" THEN [disk |-> Put(d, filename, content), raised |-> FALSE]
    ELSE IF how = "open_fails" THEN [disk |-> d, raised |-> TRUE]
    ELSE [disk |-> Put(d, filename, PartialFile), raised |-> TRUE]

(***************************************************************************)
(* Request handlers.                                                       *)
(***************************************************************************)
NoResponse ==
    [op |-> "none", outcome |-> "none", products |-> <<>>, query |-> <<>>,
     collection_file |-> <<>>, files |-> <<>>, writes |-> 0]
Failed500(op) ==
    [op |-> op, outcome |-> "500", products |-> <<>>, query |-> <<>>,
     collection_file |-> <<>>, files |-> <<>>, writes |-> 0]

\* get_watch_collection, lines 157-159
\* (ListResponseDropLast: the variant that loses the last product.)
ListResponseDropLast(ws) ==
    IF ws = <<>> THEN Failed500("list")
    ELSE [op |-> "list", outcome |-> "200", products |-> SubSeq(ws, 1, Len(ws) - 1),
          query |-> <<>>, collection_file |-> <<>>, files |-> <<>>, writes |-> 0]
ListResponse(ws) ==
    IF ws = <<>> THEN Failed500("list")
    ELSE [op |-> "list", outcome |-> "200", products |-> ws, query |-> <<>>,
          collection_file |-> <<>>, files |-> <<>>, writes |-> 0]

\* watch['name'].lower().strip() == watch_name, line 169
Matches(watch, watch_name) == Strip(Lower(watch.name)) = watch_name
\* the for loop of lines 168-170: the index of the watch returned, 0 if none
\* (LastMatch: the variant that keeps scanning and returns the last match.)
LastMatch(ws, watch_name) ==
    IF \E k \in 1..Len(ws) : Matches(ws[k], watch_name)
    THEN CHOOSE k \in 1..Len(ws) :
            /\ Matches(ws[k], watch_name)
            /\ \A j \in (k + 1)..Len(ws) : ~Matches(ws[j], watch_name)
    ELSE 0
FirstMatch(ws, watch_name) ==
    IF \E k \in 1..Len(ws) : Matches(ws[k], watch_name)
    THEN CHOOSE k \in 1..Len(ws) :
            /\ Matches(ws[k], watch_name)
            /\ \A j \in 1..(k - 1) : ~Matches(ws[j], watch_name)
    ELSE 0
\* get_watch_by_name, lines 164-171
FindResponse(ws, name) ==
    LET watch_name == Lower(Strip(name))
        k == FirstMatch(ws, watch_name)
    IN  IF ws = <<>> THEN Failed500("find")
        ELSE IF k # 0
             THEN [op |-> "find", outcome |-> "200", products |-> <<ws[k]>>,
                   query |-> name, collection_file |-> <<>>, files |-> <<>>, writes |-> 0]
             ELSE [op |-> "find", outcome |-> "404", products |-> <<>>,
                   query |-> name, collection_file |-> <<>>, files |-> <<>>, writes |-> 0]

collection_filename == generate_safe_filename(<<"w","a","t","c","h","_","c","o","l","l","e","c","t","i","o","n">>, <<"w","a","t","c","h","e","s">>)
\* The writes of save_watch_collection in order: the collection (line 180),
\* then one per watch (lines 183-185).
SaveWrites(ws) ==
    <<[filename |-> collection_filename, content |-> CollectionFile(ws)]>>
    \o [k \in 1..Len(ws) |->
            [filename |-> generate_safe_filename(ws[k].name, Watch),
             content |-> ProductFile(ws[k])]]
\* Runs the writes from the k-th on; the failAt-th one ends as `how` says
\* (failAt = 0: none fails).  An exception ends the handler at once.
RECURSIVE RunWrites(_, _, _, _, _)
RunWrites(d, writes, k, failAt, how) ==
    IF k > Len(writes) THEN [disk |-> d, raised |-> FALSE, done |-> k - 1]
    ELSE LET r == save_data(d, writes[k].content, writes[k].filename,
                            IF k = failAt THEN how ELSE "ok")
         IN  IF r.raised THEN [disk |-> r.disk, raised |-> TRUE, done |-> k - 1]
             ELSE RunWrites(r.disk, writes, k + 1, failAt, how)
\* save_watch_collection's answer after its writes, lines 182-188
SaveResponse(writes, run) ==
    IF run.raised
    THEN [op |-> "save", outcome |-> "exception", products |-> <<>>, query |-> <<>>,
          collection_file |-> <<>>, files |-> <<>>, writes |-> run.done]
    ELSE [op |-> "save", outcome |-> "200", products |-> <<>>, query |-> <<>>,
          collection_file |-> collection_filename,
          files |-> [k \in 1..(Len(writes) - 1) |-> writes[k + 1].filename],
          writes |-> run.done]

(***************************************************************************)
(* Inputs.                                                                 *)
(***************************************************************************)
SeqsUpTo(S, n) == UNION {[1..k -> S] : k \in 0..n}

Img(alt, src) == [img |-> TRUE, has_alt |-> TRUE, alt |-> alt, has_src |-> TRUE, src |-> src]
ImgNoAlt(src) == [img |-> TRUE, has_alt |-> FALSE, alt |-> <<>>, has_src |-> TRUE, src |-> src]
ImgNoSrc(alt) == [img |-> TRUE, has_alt |-> TRUE, alt |-> alt, has_src |-> FALSE, src |-> <<>>]
NoImg == [img |-> FALSE, has_alt |-> FALSE, alt |-> <<>>, has_src |-> FALSE, src |-> <<>>]

\* The embedded document (lines 70-96) and its links (lines 99-108).
SampleHtml ==
    [container |-> TRUE,
     items |-> <<
       Img(<<"H","u","b","l","o","t"," ","M","P","-","1","0"," ","T","o","u","r","b","i","l","l","o","n">>, <<"h","t","t","p","s",":","/","/","d","j","5","e","0","8","o","e","u","5","y","m","4",".","c","l","o","u","d","f","r","o","n","t",".","n","e","t","/","t","h","u","m","b","/","c","2","a","3","6","1","8","5","-","1","9","b","e","-","4","8","d","c","-","8","0","c","a","-","a","4","0","c","d","1","e","9","3","0","c","e",".","j","p","g">>),
       Img(<<"H","u","b","l","o","t"," ","S","p","i","r","i","t"," ","O","f"," ","B","i","g"," ","B","a","n","g"," ","F","u","l","l"," ","M","a","g","i","c"," ","G","o","l","d">>, <<"h","t","t","p","s",":","/","/","d","j","5","e","0","8","o","e","u","5","y","m","4",".","c","l","o","u","d","f","r","o","n","t",".","n","e","t","/","t","h","u","m","b","/","3","4","b","9","7","0","6","6","-","c","f","2","9","-","4","9","4","1","-","9","d","0","c","-","5","8","1","0","8","4","f","5","9","8","1","e",".","p","n","g">>),
       Img(<<"M","o","v","a","d","o"," ","A","l","t","a"," ","S","u","p","e","r"," ","S","u","b"," ","S","e","a"," ","A","u","t","o","m","a","t","i","c">>, <<"h","t","t","p","s",":","/","/","d","j","5","e","0","8","o","e","u","5","y","m","4",".","c","l","o","u","d","f","r","o","n","t",".","n","e","t","/","t","h","u","m","b","/","1","6","5","c","3","8","4","4","-","6","3","0","1","-","4","3","9","8","-","b","8","f","d","-","7","b","1","5","f","0","0","3","2","e","1","6",".","j","p","g">>),
       Img(<<"S","w","a","t","c","h"," ","O","b","s","i","d","i","a","n"," ","I","n","k">>, <<"h","t","t","p","s",":","/","/","d","j","5","e","0","8","o","e","u","5","y","m","4",".","c","l","o","u","d","f","r","o","n","t",".","n","e","t","/","t","h","u","m","b","/","1","2","d","f","7","d","f","7","-","f","e","c","d","-","4","1","2","e","-","b","e","a","5","-","0","2","e","9","2","c","3","1","2","4","0","8",".","w","e","b","p">>),
       Img(<<"S","w","a","t","c","h"," ","C","a","r","a","m","e","l","l","i","s","s","i","m","a">>, <<"h","t","t","p","s",":","/","/","d","j","5","e","0","8","o","e","u","5","y","m","4",".","c","l","o","u","d","f","r","o","n","t",".","n","e","t","/","t","h","u","m","b","/","e","b","5","e","1","8","b","9","-","4","0","0","c","-","4","c","1","4","-","b","7","5","2","-","8","6","d","2","b","e","8","8","a","4","8","2",".","a","v","i","f">>),
       Img(<<"S","w","a","t","c","h"," ","R","a","n","d","o","m"," ","G","h","o","s","t">>, <<"h","t","t","p","s",":","/","/","d","j","5","e","0","8","o","e","u","5","y","m","4",".","c","l","o","u","d","f","r","o","n","t",".","n","e","t","/","t","h","u","m","b","/","d","6","7","0","3","4","8","a","-","0","a","e","e","-","4","9","1","6","-","b","0","1","1","-","a","8","9","4","3","b","1","d","7","4","9","6",".","j","p","g">>),
       Img(<<"S","w","a","t","c","h"," ","U","p"," ","I","n"," ","S","m","o","k","e">>, <<"h","t","t","p","s",":","/","/","d","j","5","e","0","8","o","e","u","5","y","m","4",".","c","l","o","u","d","f","r","o","n","t",".","n","e","t","/","t","h","u","m","b","/","4","2","5","b","7","2","7","b","-","c","7","8","8","-","4","6","b","3","-","a","d","b","2","-","4","c","d","f","b","9","a","3","9","c","2","c",".","p","n","g">>),
       Img(<<"S","w","a","t","c","h"," ","C","o","b","a","l","t"," ","L","a","g","o","o","n">>, <<"h","t","t","p","s",":","/","/","d","j","5","e","0","8","o","e","u","5","y","m","4",".","c","l","o","u","d","f","r","o","n","t",".","n","e","t","/","t","h","u","m","b","/","c","d","3","7","0","8","c","c","-","7","5","f","c","-","4","f","4","3","-","a","8","b","3","-","0","1","1","b","0","6","1","d","b","a","3","6",".","w","e","b","p">>) >>]
SampleLinks == <<
    <<"h","t","t","p","s",":","/","/","w","w","w",".","s","h","o","p","a","r",".","a","i","/","c","o","l","l","e","c","t","i","o","n","/","w","a","t","c","h","e","s","?","p","r","o","d","u","c","t","=","6","6","6","1","8","c","f","5","9","d","3","f","b","1","e","d","d","a","4","5","d","3","b","a","&","m","o","d","e","=","3","d">>,
    <<"h","t","t","p","s",":","/","/","w","w","w",".","s","h","o","p","a","r",".","a","i","/","c","o","l","l","e","c","t","i","o","n","/","w","a","t","c","h","e","s","?","p","r","o","d","u","c","t","=","6","5","f","4","8","b","b","5","9","a","e","8","6","e","c","2","a","6","7","a","4","3","5","d","&","m","o","d","e","=","3","d">>,
    <<"h","t","t","p","s",":","/","/","w","w","w",".","s","h","o","p","a","r",".","a","i","/","c","o","l","l","e","c","t","i","o","n","/","w","a","t","c","h","e","s","?","p","r","o","d","u","c","t","=","6","5","7","2","1","8","f","a","3","c","3","3","3","c","d","d","c","7","d","2","3","4","1","c","&","m","o","d","e","=","3","d">>,
    <<"h","t","t","p","s",":","/","/","w","w","w",".","s","h","o","p","a","r",".","a","i","/","c","o","l","l","e","c","t","i","o","n","/","w","a","t","c","h","e","s","?","p","r","o","d","u","c","t","=","6","6","b","a","0","1","a","1","1","4","d","e","9","5","3","c","8","0","0","0","3","c","f","c","&","m","o","d","e","=","3","d">>,
    <<"h","t","t","p","s",":","/","/","w","w","w",".","s","h","o","p","a","r",".","a","i","/","c","o","l","l","e","c","t","i","o","n","/","w","a","t","c","h","e","s","?","p","r","o","d","u","c","t","=","6","6","b","a","0","6","f","3","1","4","d","e","9","5","3","c","8","0","0","0","7","1","9","c","&","m","o","d","e","=","3","d">>,
    <<"h","t","t","p","s",":","/","/","w","w","w",".","s","h","o","p","a","r",".","a","i","/","c","o","l","l","e","c","t","i","o","n","/","w","a","t","c","h","e","s","?","p","r","o","d","u","c","t","=","6","7","1","2","9","0","2","3","c","9","0","4","b","2","a","2","7","7","7","e","f","e","9","d","&","m","o","d","e","=","3","d">>,
    <<"h","t","t","p","s",":","/","/","w","w","w",".","s","h","o","p","a","r",".","a","i","/","c","o","l","l","e","c","t","i","o","n","/","w","a","t","c","h","e","s","?","p","r","o","d","u","c","t","=","6","7","1","2","9","8","9","a","c","9","0","4","b","2","a","2","7","7","7","f","3","9","e","d","&","m","o","d","e","=","3","d">>,
    <<"h","t","t","p","s",":","/","/","w","w","w",".","s","h","o","p","a","r",".","a","i","/","c","o","l","l","e","c","t","i","o","n","/","w","a","t","c","h","e","s","?","p","r","o","d","u","c","t","=","6","6","b","a","0","7","1","9","1","4","d","e","9","5","3","c","8","0","0","0","7","2","2","f","&","m","o","d","e","=","3","d">> >>

\* Items the bounded documents are built from.
ItemGood == Img(<<" ","A","a"," ">>, <<"/","a",".","p","n","g">>)
ItemSameName == Img(<<"a","a">>, <<"h","t","t","p","s",":","/","/","c","/","a">>)
ItemUnnamed == ImgNoAlt(<<"b",".","p","n","g">>)
ItemBlankSrc == Img(<<"B","-","1">>, <<" ","\t">>)
ItemNoSrc == ImgNoSrc(<<"B","-","1">>)
ItemBadUrl == Img(<<"C"," ","c">>, <<"/","/","[","x">>)
ItemHttpish == Img(<<"D","!">>, <<"h","t","t","p","x","/","d",".","p","n","g">>)
ItemOtherScheme == Img(<<"E","_","e">>, <<" ","f","t","p",":","/","/","h","/","e">>)

ExtractItems ==
    {NoImg, ItemGood, ItemSameName, ItemUnnamed, ItemBlankSrc, ItemNoSrc, ItemBadUrl,
     ItemHttpish, ItemOtherScheme}
ApiItems == {ItemGood, ItemSameName, ItemUnnamed, ItemBadUrl}
LinkPool == {<<" ","L","1","\n">>, <<"L","2">>}
ApiLinkPool == {<<" ","L","1","\n">>}
Queries == {<<" ","A","A","\t">>, <<" ","s","w","a","t","c","h"," ","O","B","S","I","D","I","A","N"," ","I","n","k"," ">>}
Alphabet == {"A", "b", "7", "_", "-", " ", "\t", "!"}

\* Documents: items are the 'inline-block' divs in document order; without
\* the container none of them is looked at.
Docs(pool, n) ==
    {[container |-> TRUE, items |-> its] : its \in SeqsUpTo(pool, n)}
    \cup {[container |-> FALSE, items |-> its] : its \in SeqsUpTo(pool, 1)}
NoDoc == [container |-> FALSE, items |-> <<>>]

(***************************************************************************)
(* The API: html_content and watch_links are module constants of the       *)
(* program, fixed for the life of the process; every handler runs to       *)
(* completion (no await inside), so each is one step.                      *)
(***************************************************************************)
Init ==
    /\ \/ html_content \in Docs(ApiItems, MaxApiItems) /\ watch_links \in SeqsUpTo(ApiLinkPool, MaxLinks)
       \/ html_content = SampleHtml /\ watch_links = SampleLinks
    /\ pc = "idle"
    /\ watches = <<>>
    /\ raised = FALSE
    /\ response = NoResponse
    /\ disk = EmptyDisk
    /\ data_dir = FALSE
    /\ io_failures = 0
    /\ name_in = <<>>
    /\ slug_out = <<>>
    /\ slug_again = <<>>
    /\ filename_out = <<>>

get_watch_collection ==
    /\ pc \in {"idle", "served"}
    /\ LET r == extract_watch_data(html_content, watch_links) IN
        /\ watches' = r.value
        /\ raised' = r.raised
        /\ response' = ListResponse(r.value)
    /\ pc' = "served"
    /\ UNCHANGED <<html_content, watch_links, disk, data_dir, io_failures, name_in, slug_out,
                   slug_again, filename_out>>

get_watch_by_name ==
    /\ pc \in {"idle", "served"}
    /\ LET r == extract_watch_data(html_content, watch_links) IN
        /\ watches' = r.value
        /\ raised' = r.raised
        /\ \E name \in Queries : response' = FindResponse(r.value, name)
    /\ pc' = "served"
    /\ UNCHANGED <<html_content, watch_links, disk, data_dir, io_failures, name_in, slug_out,
                   slug_again, filename_out>>

save_watch_collection ==
    /\ pc \in {"idle", "served"}
    /\ LET r == extract_watch_data(html_content, watch_links) IN
        /\ watches' = r.value
        /\ raised' = r.raised
        /\ IF r.value = <<>>
           THEN /\ response' = Failed500("save")
                /\ UNCHANGED <<disk, data_dir, io_failures>>
           ELSE LET writes == SaveWrites(r.value) IN
                \E failAt \in 0..Len(writes) :
                \E how \in IF failAt = 0 THEN {"ok"} ELSE {"open_fails", "dump_fails"} :
                    LET run == RunWrites(disk, writes, 1, failAt, how) IN
                    /\ failAt # 0 => io_failures < MaxWriteFailures
                    /\ io_failures' = IF failAt # 0 THEN io_failures + 1 ELSE io_failures
                    /\ disk' = run.disk
                    /\ data_dir' = TRUE
                    /\ response' = SaveResponse(writes, run)
    /\ pc' = "served"
    /\ UNCHANGED <<html_content, watch_links, name_in, slug_out, slug_again, filename_out>>

Next == get_watch_collection \/ get_watch_by_name \/ save_watch_collection

Spec == Init /\ [][Next]_vars

(***************************************************************************)
(* extract_watch_data on its own, over documents and link lists drawn      *)
(* from the bounded sets.                                                  *)
(***************************************************************************)
InitExtract ==
    /\ html_content \in Docs(ExtractItems, MaxItems)
    /\ watch_links \in SeqsUpTo(LinkPool, MaxLinks)
    /\ pc = "start"
    /\ watches = <<>>
    /\ raised = FALSE
    /\ response = NoResponse
    /\ disk = EmptyDisk
    /\ data_dir = FALSE
    /\ io_failures = 0
    /\ name_in = <<>>
    /\ slug_out = <<>>
    /\ slug_again = <<>>
    /\ filename_out = <<>>

CallExtract ==
    /\ pc = "start"
    /\ LET r == extract_watch_data(html_content, watch_links) IN
        /\ watches' = r.value
        /\ raised' = r.raised
    /\ pc' = "extracted"
    /\ UNCHANGED <<html_content, watch_links, response, disk, data_dir, io_failures,
                   name_in,
                   slug_out, slug_again, filename_out>>

NextExtract == CallExtract

SpecExtract == InitExtract /\ [][NextExtract]_vars

(***************************************************************************)
(* The string utilities on their own, over every string of at most MaxLen  *)
(* characters of Alphabet.                                                 *)
(***************************************************************************)
InitSlug ==
    /\ name_in \in SeqsUpTo(Alphabet, MaxLen)
    /\ pc = "start"
    /\ html_content = NoDoc
    /\ watch_links = <<>>
    /\ watches = <<>>
    /\ raised = FALSE
    /\ response = NoResponse
    /\ disk = EmptyDisk
    /\ data_dir = FALSE
    /\ io_failures = 0
    /\ slug_out = <<>>
    /\ slug_again = <<>>
    /\ filename_out = <<>>

CallGenerateSlug ==
    /\ pc = "start"
    /\ slug_out' = generate_slug(name_in)
    /\ pc' = "slug"
    /\ UNCHANGED <<html_content, watch_links, watches, raised, response, disk, data_dir,
                   io_failures,                    name_in, slug_again, filename_out>>

CallGenerateSlugAgain ==
    /\ pc = "slug"
    /\ slug_again' = generate_slug(slug_out)
    /\ pc' = "slug_again"
    /\ UNCHANGED <<html_content, watch_links, watches, raised, response, disk, data_dir,
                   io_failures,                    name_in, slug_out, filename_out>>

CallGenerateSafeFilename ==
    /\ pc = "start"
    /\ filename_out' = generate_safe_filename(name_in, Watch)
    /\ data_dir' = TRUE
    /\ pc' = "filename"
    /\ UNCHANGED <<html_content, watch_links, watches, raised, response, disk, io_failures,
                   name_in,
                   slug_out, slug_again>>

NextSlug == CallGenerateSlug \/ CallGenerateSlugAgain \/ CallGenerateSafeFilename

SpecSlug == InitSlug /\ [][NextSlug]_vars

(***************************************************************************)
(* Vocabulary of the properties.                                           *)
(***************************************************************************)
Items == html_content.items
NItems == Len(Items)
NLinks == Len(watch_links)
InRangeCount == IF NItems < NLinks THEN NItems ELSE NLinks
\* item i carries an image with a non-empty source (the source as the code
\* reads it: the src attribute, trimmed)
HasUsableSource(i) == Items[i].img /\ SourceOf(Items[i]) # <<>>
\* urljoin raises on item i, which the loop reaches with a link in range
FailsAt(i) ==
    /\ i <= NLinks
    /\ Items[i].img
    /\ SourceOf(Items[i]) # <<>>
    /\ ~StartsWith(SourceOf(Items[i]), Http)
    /\ UrlJoinRaises(SourceOf(Items[i]))
\* an internal step of extraction fails
BodyFails == html_content.container /\ \E i \in 1..NItems : FailsAt(i)
\* the product item i gives when it is emitted
ExpectedProduct(i) ==
    [name |-> LabelOf(Items[i]),
     image_url |-> ResolvedUrl(Items[i]),
     link |-> Strip(watch_links[i]),
     slug |-> generate_slug(LabelOf(Items[i]))]
Eligible == {i \in 1..InRangeCount : HasUsableSource(i)}
RECURSIVE Ascending(_)
Ascending(S) ==
    IF S = {} THEN <<>>
    ELSE LET m == CHOOSE x \in S : \A y \in S : x <= y
         IN  <<m>> \o Ascending(S \ {m})
Increasing(f) == \A j, k \in DOMAIN f : j < k => f[j] < f[k]
Extracted == pc = "extracted"

(***************************************************************************)
(* C1, as stated: with the container holding N items and L < N links,      *)
(* no product comes from an item at index >= L, every item at index < L    *)
(* carrying an image with a non-empty source has a product, and the        *)
(* output has at most min(N, L) products.                                  *)
(***************************************************************************)
C1_AsStated ==
    (Extracted /\ html_content.container /\ NLinks < NItems) =>
        /\ Len(watches) <= InRangeCount
        /\ \A k \in 1..Len(watches) : \E i \in 1..NLinks : watches[k] = ExpectedProduct(i)
        /\ \A i \in 1..NLinks :
              HasUsableSource(i) => \E k \in 1..Len(watches) : watches[k] = ExpectedProduct(i)

(***************************************************************************)
(* C1, amended: with the container holding N items and L < N links, the    *)
(* output is empty when an internal step fails; otherwise it is exactly    *)
(* the products of the items at index < L that carry an image with a       *)
(* non-empty (trimmed) source, in document order, so no item at index >= L *)
(* has a product and the output has at most min(N, L) products.            *)
(***************************************************************************)
C1_FewerLinks ==
    (Extracted /\ html_content.container /\ NLinks < NItems) =>
        /\ Len(watches) <= InRangeCount
        /\ IF BodyFails THEN watches = <<>>
           ELSE watches = [k \in 1..Cardinality(Eligible) |->
                               ExpectedProduct(Ascending(Eligible)[k])]
C1_Witness ==
    /\ Extracted /\ html_content.container /\ NLinks < NItems /\ ~BodyFails
    /\ Len(watches) >= 1
    /\ \E i \in (NLinks + 1)..NItems : HasUsableSource(i)
    /\ \E i \in 1..NLinks : ~HasUsableSource(i)

(***************************************************************************)
(* C2: extract_watch_data never raises to its caller; when the container   *)
(* is absent, or an internal step fails, it returns the empty sequence,    *)
(* not the products appended before the failure.                           *)
(***************************************************************************)
C2_NeverRaises ==
    Extracted =>
        /\ raised = FALSE
        /\ (~html_content.container \/ BodyFails) => watches = <<>>
C2_Witness ==
    /\ Extracted /\ BodyFails /\ watches = <<>>
    /\ \E i \in 1..NItems :
          /\ FailsAt(i)
          /\ \E j \in 1..(i - 1) : j \in Eligible /\ \A h \in 1..j : ~FailsAt(h)

(***************************************************************************)
(* C3: a Find-by-name request answers 500 when extraction yields no        *)
(* products; otherwise 200 with the first product, in extraction order,    *)
(* whose name equals the requested name after both are trimmed and         *)
(* lowercased; otherwise 404.                                              *)
(***************************************************************************)
Normal(s) == Lower(Strip(s))
FindMatches == {k \in 1..Len(watches) : Normal(watches[k].name) = Normal(response.query)}
C3_FindOutcome ==
    response.op = "find" =>
        /\ watches = extract_watch_data(html_content, watch_links).value
        /\ (response.outcome = "500") <=> (watches = <<>>)
        /\ (watches # <<>> /\ FindMatches # {}) =>
              /\ response.outcome = "200"
              /\ response.products = <<watches[Ascending(FindMatches)[1]]>>
        /\ (watches # <<>> /\ FindMatches = {}) => response.outcome = "404"
C3_Witness ==
    /\ response.op = "find" /\ response.outcome = "200"
    /\ Cardinality(FindMatches) >= 2
    /\ \E j, k \in FindMatches : j < k /\ watches[j] # watches[k]
                                  /\ response.products = <<watches[j]>>

(***************************************************************************)
(* C4: whatever List, Find and Save requests came before, a List request   *)
(* answers 500 exactly when extraction yields the empty sequence, and      *)
(* otherwise 200 with every extracted product in extraction order (8 for   *)
(* the embedded document and its 8 links).                                 *)
(***************************************************************************)
C4_ListOutcome ==
    response.op = "list" =>
        LET extracted == extract_watch_data(html_content, watch_links).value IN
        /\ (response.outcome = "500") <=> (extracted = <<>>)
        /\ extracted # <<>> => response.outcome = "200" /\ response.products = extracted
        /\ (html_content = SampleHtml /\ watch_links = SampleLinks) =>
              /\ response.outcome = "200"
              /\ Len(response.products) = Len(SampleLinks)
              /\ response.products[1].name = <<"H","u","b","l","o","t"," ","M","P","-","1","0"," ","T","o","u","r","b","i","l","l","o","n">>
              /\ response.products[1].slug = <<"h","u","b","l","o","t","-","m","p","-","1","0","-","t","o","u","r","b","i","l","l","o","n">>
C4_Witness ==
    /\ response.op = "list" /\ response.outcome = "200"
    /\ html_content = SampleHtml
    /\ Len(response.products) = Len(SampleLinks)
    /\ io_failures > 0
    /\ disk # EmptyDisk

(***************************************************************************)
(* C5, as stated: after a Save-all that succeeds on n products the data    *)
(* directory holds the collection file and n distinct per-item files, each *)
(* containing the product it was written for, and the message names the    *)
(* collection path and all n per-item paths.                               *)
(***************************************************************************)
C5_AsStated ==
    (response.op = "save" /\ response.outcome = "200") =>
        /\ data_dir
        /\ response.collection_file \in DOMAIN disk
        /\ disk[response.collection_file] = CollectionFile(watches)
        /\ Len(response.files) = Len(watches)
        /\ Cardinality({response.files[k] : k \in 1..Len(watches)}) = Len(watches)
        /\ \A k \in 1..Len(watches) :
              /\ response.files[k] \in DOMAIN disk
              /\ disk[response.files[k]] = ProductFile(watches[k])

(***************************************************************************)
(* C6, as stated: when the k-th write of a Save-all fails, the failure     *)
(* leaves the handler (no success message), no later file is written, and  *)
(* every file written by the k-1 earlier writes stays on disk as those     *)
(* writes left it.                                                         *)
(***************************************************************************)
C6_AsStated ==
    [][(save_watch_collection /\ response'.outcome = "exception") =>
          LET w == SaveWrites(watches')
              done == response'.writes
              earlier == RunWrites(disk, SubSeq(w, 1, done), 1, 0, "ok").disk
          IN  /\ response'.collection_file = <<>> /\ response'.files = <<>>
              /\ \A j \in 1..done :
                    /\ w[j].filename \in DOMAIN disk'
                    /\ disk'[w[j].filename] = earlier[w[j].filename]
              /\ \A j \in (done + 2)..Len(w) :
                    w[j].filename # w[done + 1].filename =>
                        /\ w[j].filename \in DOMAIN disk' <=> w[j].filename \in DOMAIN earlier
                        /\ w[j].filename \in DOMAIN disk' =>
                              disk'[w[j].filename] = earlier[w[j].filename]
      ]_vars

(***************************************************************************)
(* C7: generate_slug returns a value for every string; applying it to its  *)
(* own result changes nothing; the result is lowercase (lowercasing it     *)
(* changes nothing), has no whitespace, no leading or trailing hyphen and  *)
(* no two adjacent hyphens; the empty string gives the empty string.       *)
(***************************************************************************)
SlugShape(s) ==
    /\ Lower(s) = s
    /\ \A k \in 1..Len(s) : ~IsSpace(s[k])
    /\ s # <<>> => s[1] # "-" /\ s[Len(s)] # "-"
    /\ \A k \in 1..(Len(s) - 1) : ~(s[k] = "-" /\ s[k + 1] = "-")
C7_SlugIdempotent ==
    /\ pc \in {"slug", "slug_again"} => SlugShape(slug_out) /\ (name_in = <<>> => slug_out = <<>>)
    /\ pc = "slug_again" => slug_again = slug_out
C7_Witness ==
    /\ pc = "slug_again"
    /\ \E k \in 1..Len(name_in) : IsUpper(name_in[k])
    /\ \E k \in 1..Len(name_in) : IsSpace(name_in[k])
    /\ Contains(name_in, "!")
    /\ Contains(slug_out, "-")
    /\ slug_again = slug_out

(***************************************************************************)
(* C8, as stated: generate_safe_filename returns                           *)
(* data/<processed-name>_<category>.json, the processed name being the     *)
(* name without the characters other than alphanumerics, underscore,       *)
(* whitespace and hyphen, with every remaining whitespace character        *)
(* replaced by an underscore, lowercased; it holds no whitespace.          *)
(***************************************************************************)
ProcessedName(name) ==
    Lower([k \in 1..Len(RemoveNonWord(name)) |->
              IF IsSpace(RemoveNonWord(name)[k]) THEN "_" ELSE RemoveNonWord(name)[k]])
C8_AsStated ==
    pc = "filename" =>
        /\ filename_out = <<"d","a","t","a","/">> \o ProcessedName(name_in) \o <<"_","w","a","t","c","h",".","j","s","o","n">>
        /\ \A k \in 1..Len(filename_out) : ~IsSpace(filename_out[k])

(***************************************************************************)
(* C9, as stated: every product emitted has a non-empty, absolute          *)
(* image_url: a trimmed source with an absolute-URL scheme is kept, and    *)
(* every other non-empty trimmed source, also one that merely begins with  *)
(* the letters "http", is resolved against https://www.shopar.ai.          *)
(***************************************************************************)
C9_AsStated ==
    Extracted =>
        \A k \in 1..Len(watches) :
            /\ watches[k].image_url # <<>>
            /\ HasScheme(watches[k].image_url)
            /\ \E i \in 1..InRangeCount :
                  /\ watches[k].name = LabelOf(Items[i])
                  /\ watches[k].link = Strip(watch_links[i])
                  /\ watches[k].image_url =
                        IF HasScheme(SourceOf(Items[i])) THEN SourceOf(Items[i])
                        ELSE UrlJoin(SourceOf(Items[i]))

(***************************************************************************)
(* C10, as stated: every product comes from an item at index i < len(links)*)
(* with link = trim(links[i]), name = the trimmed label ("Unknown Watch"   *)
(* without one) and slug = generate_slug(name); the indexes of successive  *)
(* products increase strictly; and every in-range item with an image and a *)
(* non-empty source is emitted, whatever was skipped before it.            *)
(***************************************************************************)
C10_AsStated ==
    (Extracted /\ html_content.container) =>
        \E f \in [1..Len(watches) -> 1..InRangeCount] :
            /\ Increasing(f)
            /\ \A k \in 1..Len(watches) : watches[k] = ExpectedProduct(f[k])
            /\ \A i \in 1..InRangeCount :
                  HasUsableSource(i) => \E k \in 1..Len(watches) : f[k] = i

(***************************************************************************)
(* C10, amended: unless an internal step fails (then the output is empty), *)
(* every product comes from an item at index i < len(links) with           *)
(* link = trim(links[i]), name = the trimmed label ("Unknown Watch"        *)
(* without one) and slug = generate_slug(name); the indexes of successive  *)
(* products increase strictly; and every in-range item with an image and a *)
(* non-empty (trimmed) source is emitted, whatever was skipped before it.  *)
(***************************************************************************)
C10_Pairing ==
    (Extracted /\ html_content.container) =>
        IF BodyFails THEN watches = <<>>
        ELSE \E f \in [1..Len(watches) -> 1..InRangeCount] :
                /\ Increasing(f)
                /\ \A k \in 1..Len(watches) :
                      /\ watches[k].name = LabelOf(Items[f[k]])
                      /\ watches[k].link = Strip(watch_links[f[k]])
                      /\ watches[k].slug = generate_slug(watches[k].name)
                      /\ ~Items[f[k]].has_alt => watches[k].name = UnknownWatch
                /\ \A i \in 1..InRangeCount :
                      HasUsableSource(i) <=> \E k \in 1..Len(watches) : f[k] = i
C10_Witness ==
    /\ Extracted /\ html_content.container /\ ~BodyFails
    /\ \E i, j \in 1..InRangeCount :
          /\ i < j
          /\ ~HasUsableSource(i)
          /\ HasUsableSource(j)
          /\ Strip(watch_links[i]) # Strip(watch_links[j])
          /\ ~Items[j].has_alt
          /\ \E k \in 1..Len(watches) :
                watches[k].name = UnknownWatch /\ watches[k].link = Strip(watch_links[j])

====
